---- MODULE Spec2Model ----
(***************************************************************************)
(* Model of flask_pyquery.py: the PyQueryTemplates extension shim, the     *)
(* TemplateLookup / Template pair, the per-application lookup cache and    *)
(* the render_template entry point.                                        *)
(*                                                                         *)
(* Python values are modelled as follows.                                  *)
(*   - None is the record None; a missing attribute / dict key is NoAttr.  *)
(*   - a path is the tuple of its components; os.path.join(p, f) with a    *)
(*     relative f appends a component.                                     *)
(*   - a context dict is a function from Keys to a value or Absent.        *)
(*   - a PyQuery document is the sequence of its root elements' tags.      *)
(***************************************************************************)
EXTENDS Naturals, Sequences, FiniteSets, TLC

VARIABLES
    shim,   \* each PyQueryTemplates object: app, module_path, renderer_module
    app,    \* each Flask application: extensions['pyquery'], _pyquery_lookup,
            \* config['PYQUERY_DOCTYPE']
    thr,    \* each request thread's position in render_template and its locals
    last,   \* what the call that the last step completed returned or raised
    isdir,  \* the directories that exist on disk
    call,   \* a call made directly on a lookup: its arguments and environment
    ret     \* ... and what it returned or raised

vars == <<shim, app, thr, last, isdir, call, ret>>
sysvars == <<shim, app, thr, last, isdir>>

(***************************************************************************)
(* Bounds of the model.                                                    *)
(***************************************************************************)
MaxDirs == 3        \* longest directory list handed to a TemplateLookup
MaxRoots == 2       \* most root elements a renderer returns

(***************************************************************************)
(* Python's None and a missing attribute or key.                           *)
(***************************************************************************)
None == [none |-> TRUE]
NoAttr == [noattr |-> TRUE]

Shims == {"s1", "s2"}
Apps == {"a1", "a2"}
Threads == {"t1", "t2"}

\* ------------------------------------------------------------------------
\* The doctype alias table and the configuration values tried.
\* ------------------------------------------------------------------------
DoctypeValues == {"html5", "custom-doctype"}

\* The variant that forgets the alias table and passes every value through.
doctype_names_verbatim(doctype) == doctype

\* PyQueryTemplates.doctype_names.get(doctype, doctype)
doctype_names(doctype) ==
    IF doctype = "html5" THEN "<!DOCTYPE html>" ELSE doctype

\* ------------------------------------------------------------------------
\* The applications the model runs: what _create_lookup reads from them.
\* A template_folder is a str, a list or None.
\* ------------------------------------------------------------------------
Str(s) == [kind |-> "str", val |-> s]
List(l) == [kind |-> "list", val |-> l]
NoFolder == [kind |-> "none"]

ImportName == [a \in Apps |-> IF a = "a1" THEN "pkg1" ELSE "pkg2"]
RootPath == [a \in Apps |-> <<ImportName[a]>>]
TemplateFolder ==
    [a \in Apps |-> IF a = "a1" THEN List(<<"templates", "extra">>)
                               ELSE Str("templates")]
\* app.blueprints.values(), in registration order
Blueprints ==
    [a \in Apps |->
        IF a = "a1"
        THEN << [root_path |-> <<"pkg1", "admin">>, template_folder |-> Str("tpl")],
                [root_path |-> <<"pkg1", "api">>, template_folder |-> NoFolder],
                [root_path |-> <<"pkg1", "blog">>,
                 template_folder |-> List(<<"tpl">>)] >>
        ELSE << >>]

\* os.path.join(root, tf) for a relative tf
Join(root, tf) == Append(root, tf)

RECURSIVE JoinAll(_, _)
JoinAll(root, tfs) ==
    IF tfs = << >> THEN << >>
    ELSE <<Join(root, Head(tfs))>> \o JoinAll(root, Tail(tfs))

\* Lines 117-120: the application's own folder(s).
AppPaths(a) ==
    IF TemplateFolder[a].kind = "list"
    THEN JoinAll(RootPath[a], TemplateFolder[a].val)
    ELSE <<Join(RootPath[a], TemplateFolder[a].val)>>

\* Lines 123-130: one blueprint's contribution.
BlueprintPaths(bp) ==
    IF bp.template_folder.kind = "none" THEN << >>
    ELSE IF bp.template_folder.kind = "list"
         THEN JoinAll(bp.root_path, bp.template_folder.val)
         ELSE <<Join(bp.root_path, bp.template_folder.val)>>

RECURSIVE ExtendWithBlueprints(_, _)
ExtendWithBlueprints(paths, bps) ==
    IF bps = << >> THEN paths
    ELSE ExtendWithBlueprints(paths \o BlueprintPaths(Head(bps)), Tail(bps))

Range(s) == {s[i] : i \in DOMAIN s}

\* Every path _create_lookup can test with os.path.isdir.
CandidatePaths ==
    UNION {Range(ExtendWithBlueprints(AppPaths(a), Blueprints[a])) : a \in Apps}

\* The variant that lists the blueprints' folders before the application's.
_create_lookup_blueprints_first(a, doctype, dirs) ==
    [app |-> a,
     directories |->
        SelectSeq(ExtendWithBlueprints(<< >>, Blueprints[a]) \o AppPaths(a),
                  LAMBDA p : p \in dirs),
     kwargs |-> [doctype |-> doctype_names(doctype)]]

\* _create_lookup(app), given the configured doctype and the set of existing
\* directories.
_create_lookup(a, doctype, dirs) ==
    [app |-> a,
     directories |->
        SelectSeq(ExtendWithBlueprints(AppPaths(a), Blueprints[a]),
                  LAMBDA p : p \in dirs),
     kwargs |-> [doctype |-> doctype_names(doctype)]]

\* ------------------------------------------------------------------------
\* TemplateLookup.get_template
\* ------------------------------------------------------------------------
TemplateNames == {"index", "about"}
\* getattr(renderer_module, name, None): no such attribute, an attribute
\* that is None, or a function.
Attrs == {"absent", "none", "func"}
\* What <directory>/<name>.html is on disk.
Kinds == {"missing", "file", "dir"}

Filename(name) == <<name, "html">>

\* The disk states a request thread of the system meets: every directory
\* alike.
SomeFiles(dirs) == {[d \in dirs |-> k] : k \in Kinds}

Raise(e) == [raised |-> e]
Raised(r) == "raised" \in DOMAIN r

\* The loop of lines 102-106 from position i on.
RECURSIVE FindTemplate(_, _, _, _, _, _)
FindTemplate(directories, i, name, files, func, kwargs) ==
    IF i > Len(directories) THEN Raise("FileNotFoundError")
    ELSE IF files[directories[i]] = "file"
         THEN [path |-> Join(directories[i], Filename(name)),
               renderer |-> func, kwargs |-> kwargs]
         ELSE FindTemplate(directories, i + 1, name, files, func, kwargs)

\* The variant that keeps scanning and returns the last match.
RECURSIVE FindLastTemplate(_, _, _, _, _, _)
FindLastTemplate(directories, i, name, files, func, kwargs) ==
    IF i < 1 THEN Raise("FileNotFoundError")
    ELSE IF files[directories[i]] = "file"
         THEN [path |-> Join(directories[i], Filename(name)),
               renderer |-> func, kwargs |-> kwargs]
         ELSE FindLastTemplate(directories, i - 1, name, files, func, kwargs)

get_template_last_match(lookup, module, name, attr, files) ==
    IF attr # "func" THEN Raise("AttributeError")
    ELSE FindLastTemplate(lookup.directories, Len(lookup.directories), name,
                          files, <<module, name>>, lookup.kwargs)

\* The variant that never looks the renderer up.
get_template_no_renderer_check(lookup, module, name, attr, files) ==
    FindTemplate(lookup.directories, 1, name, files, <<module, name>>,
                 lookup.kwargs)

\* get_template(template_name) on `lookup`; `module` is
\* app.extensions['pyquery'].renderer_module, `attr` what the module holds
\* under the name and `files` what each directory holds under the filename.
get_template(lookup, module, name, attr, files) ==
    IF attr # "func" THEN Raise("AttributeError")
    ELSE FindTemplate(lookup.directories, 1, name, files, <<module, name>>,
                      lookup.kwargs)

\* ------------------------------------------------------------------------
\* Template.render
\* ------------------------------------------------------------------------
Tags == {"html", "div"}
BoundedSeq(S, n) == UNION {[1..m -> S] : m \in 0..n}
\* What the renderer does: raises, or returns a document.
RendererResults ==
    {[kind |-> "raise"]} \cup
    {[kind |-> "doc", roots |-> r] : r \in BoundedSeq(Tags, MaxRoots)}
\* What a render meets: a file that cannot be read, or a file that can and a
\* renderer that is then called.
Behaviours ==
    {[io |-> "OSError", rr |-> [kind |-> "raise"]]} \cup
    {[io |-> "ok", rr |-> r] : r \in RendererResults}

\* The variant that only rejects an empty document.
render_first_root(template, context, io, rr) ==
    IF io # "ok" THEN [raised |-> "OSError", seen |-> None]
    ELSE IF rr.kind = "raise"
         THEN [raised |-> "RendererError", seen |-> context]
         ELSE IF Len(rr.roots) < 1
              THEN [raised |-> "TemplateError", seen |-> context]
              ELSE [doctype |-> template.kwargs.doctype,
                    root |-> rr.roots[1], seen |-> context]

\* Template.render(**context): `seen` is the context the renderer was called
\* with (None when it was not called).
render(template, context, io, rr) ==
    IF io # "ok" THEN [raised |-> "OSError", seen |-> None]
    ELSE IF rr.kind = "raise"
         THEN [raised |-> "RendererError", seen |-> context]
         ELSE IF Len(rr.roots) # 1 \/ rr.roots[1] # "html"
              THEN [raised |-> "TemplateError", seen |-> context]
              ELSE [doctype |-> template.kwargs.doctype,
                    root |-> rr.roots[1], seen |-> context]

\* ------------------------------------------------------------------------
\* _render: context merging, rendering, the template_rendered signal
\* ------------------------------------------------------------------------
Keys == {"k1", "k2"}
Absent == "absent"
\* The dicts tried for each source: a key is absent or carries the source's mark.
Dicts(mark) == [Keys -> {Absent, mark}]

\* The contexts a request thread of the system is given: all empty or all
\* full.
SomeContexts ==
    {[globals |-> [k \in Keys |-> IF full THEN "g" ELSE Absent],
      processors |-> [k \in Keys |-> IF full THEN "p" ELSE Absent],
      caller |-> [k \in Keys |-> IF full THEN "c" ELSE Absent]] :
        full \in BOOLEAN}

\* d.update(e)
Update(d, e) == [k \in Keys |-> IF e[k] # Absent THEN e[k] ELSE d[k]]

\* app.update_template_context(context): Flask runs the context processors
\* into the context and then restores the values the context came in with.
UpdateTemplateContext(context, processors) ==
    Update(Update(context, processors), context)

\* The variant that fires the signal whether or not render raised.
_render_always_send(template, a, globals, processors, caller, io, rr) ==
    LET c1 == Update(caller, globals)
        c2 == UpdateTemplateContext(c1, processors)
        rv == render(template, c2, io, rr)
    IN  [rv |-> rv,
         sent |-> <<[sender |-> a, template |-> template, context |-> c2]>>]

\* _render(template, context, app): `sent` is what template_rendered.send
\* was called with, in order.
_render(template, a, globals, processors, caller, io, rr) ==
    LET c1 == Update(caller, globals)
        c2 == UpdateTemplateContext(c1, processors)
        rv == render(template, c2, io, rr)
    IN  IF Raised(rv)
        THEN [rv |-> rv, sent |-> << >>]
        ELSE [rv |-> rv,
              sent |-> <<[sender |-> a, template |-> template, context |-> c2]>>]

\* Lines 162-163 once _lookup has returned `lookup`: get_template, then
\* _render; an exception of get_template leaves _render uncalled.
render_template(lookup, module, a, name, attr, files, globals, processors, caller, io, rr) ==
    LET tm == get_template(lookup, module, name, attr, files)
    IN  IF Raised(tm)
        THEN [template |-> None, rv |-> [raised |-> tm.raised, seen |-> None],
              sent |-> << >>]
        ELSE [template |-> tm] @@
             _render(tm, a, globals, processors, caller, io, rr)

\* ------------------------------------------------------------------------
\* PyQueryTemplates.__init__ and init_app
\* ------------------------------------------------------------------------
ModulePaths == {"renderer", "missing"}
\* importlib.import_module(import_name + '.' + module_path): the packages
\* ship a `renderer` module and no `missing` module.
Importable(a, mp) == mp = "renderer"
Module(a, mp) == [module |-> <<ImportName[a], mp>>]

NotConstructed == [constructed |-> FALSE]
\* Lines 31-33.
Unbound == [app |-> "None", module_path |-> "None", renderer_module |-> None]
NoKey == "NoKey"

\* The variant without the `if self.app` guard.
init_app_no_guard(sh, s, a, mp, ap) ==
    IF ~Importable(a, mp)
    THEN [raised |-> "ImportError",
          shim |-> [sh EXCEPT !.app = a, !.module_path = mp],
          app |-> ap]
    ELSE [raised |-> "ok",
          shim |-> [app |-> a, module_path |-> mp,
                    renderer_module |-> Module(a, mp)],
          app |-> [ext |-> s, lookup |-> None,
                   config |-> IF ap.config = NoKey THEN "html5" ELSE ap.config]]

\* The variant that builds the lookup while initialising.
init_app_eager_lookup(sh, s, a, mp, ap) ==
    LET r == init_app_no_guard(sh, s, a, mp, ap)
    IN  IF sh.app # "None"
        THEN [raised |-> "RuntimeError", shim |-> sh, app |-> ap]
        ELSE IF r.raised # "ok" THEN r
        ELSE [r EXCEPT !.app.lookup = _create_lookup(a, r.app.config, isdir)]

\* init_app(self, app, module_path) on the shim object s whose fields are sh
\* and the application whose fields are ap: the exception raised ("ok" for
\* none) and the fields of both afterwards.
init_app(sh, s, a, mp, ap) ==
    IF sh.app # "None"
    THEN [raised |-> "RuntimeError", shim |-> sh, app |-> ap]
    ELSE IF ~Importable(a, mp)
         THEN [raised |-> "ImportError",
               shim |-> [sh EXCEPT !.app = a, !.module_path = mp],
               app |-> ap]
         ELSE [raised |-> "ok",
               shim |-> [app |-> a, module_path |-> mp,
                         renderer_module |-> Module(a, mp)],
               app |-> [ext |-> s, lookup |-> None,
                        config |-> IF ap.config = NoKey THEN "html5"
                                   ELSE ap.config]]

NoResult == [op |-> "none"]
Result(op, who, outcome, doctype) ==
    [op |-> op, who |-> who, outcome |-> outcome, doctype |-> doctype]

\* s = PyQueryTemplates(a, mp), with a = "None" for PyQueryTemplates(): a
\* constructor that raises leaves no object behind.
PyQueryTemplates(s, a, mp) ==
    /\ shim[s] = NotConstructed
    /\ IF a = "None"
       THEN /\ shim' = [shim EXCEPT ![s] = Unbound]
            /\ app' = app
            /\ last' = Result("__init__", s, "ok", "None")
       ELSE LET r == init_app(Unbound, s, a, mp, app[a])
            IN  /\ shim' = [shim EXCEPT ![s] = IF r.raised = "ok" THEN r.shim
                                               ELSE NotConstructed]
                /\ app' = [app EXCEPT ![a] = r.app]
                /\ last' = Result("__init__", s, r.raised, "None")
    /\ UNCHANGED <<thr, isdir, call, ret>>

\* s.init_app(a, mp)
InitAppCall(s, a, mp) ==
    /\ shim[s] # NotConstructed
    /\ LET r == init_app(shim[s], s, a, mp, app[a])
       IN  /\ shim' = [shim EXCEPT ![s] = r.shim]
           /\ app' = [app EXCEPT ![a] = r.app]
           /\ last' = Result("init_app", s, r.raised, "None")
    /\ UNCHANGED <<thr, isdir, call, ret>>

\* ------------------------------------------------------------------------
\* render_template, one request thread at a time; _lookup is split at the
\* points where another thread can run between its reads and its write.
\* A thread's `dirty` is history: the doctype option was set during the call.
\* ------------------------------------------------------------------------
Idle == [pc |-> "idle"]
At(t, pc) == thr[t].pc = pc
IsLookup(x) == "directories" \in DOMAIN x

\* a.config['PYQUERY_DOCTYPE'] = v
SetConfig(a, v) ==
    /\ v # app[a].config
    /\ app' = [app EXCEPT ![a].config = v]
    /\ thr' = [t \in Threads |->
                 IF thr[t].pc # "idle" /\ thr[t].app = a
                 THEN [thr[t] EXCEPT !.dirty = TRUE] ELSE thr[t]]
    /\ last' = NoResult
    /\ UNCHANGED <<shim, isdir, call, ret>>

Fail(t, a, e) ==
    /\ thr' = [thr EXCEPT ![t] = Idle]
    /\ last' = Result("render_template", a, e, "None")

Goto(t, pc) ==
    /\ thr' = [thr EXCEPT ![t] =
                 [pc |-> pc, app |-> thr[t].app, dirty |-> thr[t].dirty]]
    /\ last' = NoResult

\* Line 161, ctx = context_stack.top; ctx.app (a = "None": no context is
\* active), and line 137, the test `if not app._pyquery_lookup`, the call's
\* first read of shared state.
RtStart(t, a) ==
    /\ At(t, "idle")
    /\ IF a = "None" THEN Fail(t, a, "AttributeError")
       ELSE IF app[a].lookup = NoAttr THEN Fail(t, a, "AttributeError")
       ELSE /\ thr' = [thr EXCEPT ![t] =
                         [pc |-> IF app[a].lookup = None THEN "create"
                                 ELSE "return",
                          app |-> a, dirty |-> FALSE]]
            /\ last' = NoResult
    /\ UNCHANGED <<shim, app, isdir, call, ret>>

\* Line 138, right-hand side: _create_lookup(app)
LookupCreate(t) ==
    /\ At(t, "create")
    /\ LET a == thr[t].app
       IN  IF app[a].ext = "None" \/ app[a].config = NoKey
           THEN Fail(t, a, "KeyError")
           ELSE /\ thr' = [thr EXCEPT ![t] =
                             [pc |-> "store", app |-> a, dirty |-> thr[t].dirty,
                              built |-> _create_lookup(a, app[a].config, isdir)]]
                /\ last' = NoResult
    /\ UNCHANGED <<shim, app, isdir, call, ret>>

\* Line 138, the assignment: app._pyquery_lookup = <the lookup built>
LookupStore(t) ==
    /\ At(t, "store")
    /\ app' = [app EXCEPT ![thr[t].app].lookup = thr[t].built]
    /\ Goto(t, "return")
    /\ UNCHANGED <<shim, isdir, call, ret>>

\* Line 139: return app._pyquery_lookup, which reads the slot again; line
\* 162 calls get_template on what came back.
LookupReturn(t) ==
    /\ At(t, "return")
    /\ LET a == thr[t].app
       IN  IF ~IsLookup(app[a].lookup) THEN Fail(t, a, "AttributeError")
           ELSE /\ thr' = [thr EXCEPT ![t] =
                             [pc |-> "get_template", app |-> a,
                              dirty |-> thr[t].dirty, lookup |-> app[a].lookup]]
                /\ last' = NoResult
    /\ UNCHANGED <<shim, app, isdir, call, ret>>

\* Lines 162-163: get_template on the lookup returned, then _render unless
\* get_template raised.  The template name, the contexts and the state of
\* the disk and of the renderer module are drawn here, where they are first
\* read.
RtFinish(t) ==
    /\ At(t, "get_template")
    /\ LET lk == thr[t].lookup
           a == thr[t].app
           pq == app[lk.app].ext
       IN  IF pq = "None" THEN Fail(t, a, "KeyError")
           ELSE \E name \in TemplateNames, attr \in Attrs,
                   files \in SomeFiles(Range(lk.directories)) :
                   LET tm == get_template(lk, shim[pq].renderer_module, name,
                                         attr, files)
                   IN  IF Raised(tm) THEN Fail(t, a, tm.raised)
                       ELSE \E c \in SomeContexts, b \in Behaviours :
                               LET r == _render(tm, a, c.globals, c.processors,
                                               c.caller, b.io, b.rr)
                               IN  IF Raised(r.rv) THEN Fail(t, a, r.rv.raised)
                                   ELSE /\ thr' = [thr EXCEPT ![t] = Idle]
                                        /\ last' = Result("render_template", a,
                                                          "ok", r.rv.doctype)
    /\ UNCHANGED <<shim, app, isdir, call, ret>>

\* ------------------------------------------------------------------------
\* The system: shims, applications and request threads.
\* ------------------------------------------------------------------------
NoCall == [op |-> "none"]

InitSys(configs, dirsets) ==
    /\ shim = [s \in Shims |-> NotConstructed]
    /\ \E c \in [Apps -> configs] :
          app = [a \in Apps |-> [ext |-> "None", lookup |-> NoAttr,
                                 config |-> c[a]]]
    /\ thr = [t \in Threads |-> Idle]
    /\ last = NoResult
    /\ isdir \in dirsets
    /\ call = NoCall
    /\ ret = None

Init == InitSys({NoKey} \cup DoctypeValues, SUBSET CandidatePaths)

Next ==
    \/ \E s \in Shims, a \in Apps \cup {"None"}, mp \in ModulePaths :
          PyQueryTemplates(s, a, mp)
    \/ \E s \in Shims, a \in Apps, mp \in ModulePaths : InitAppCall(s, a, mp)
    \/ \E a \in Apps, v \in DoctypeValues : SetConfig(a, v)
    \/ \E t \in Threads, a \in Apps \cup {"None"} : RtStart(t, a)
    \/ \E t \in Threads : LookupCreate(t)
    \/ \E t \in Threads : LookupStore(t)
    \/ \E t \in Threads : LookupReturn(t)
    \/ \E t \in Threads : RtFinish(t)

Spec == Init /\ [][Next]_vars

\* ------------------------------------------------------------------------
\* The shims alone: every constructor and init_app call on both
\* applications, with and without an importable renderer module.
\* ------------------------------------------------------------------------
NextShim ==
    \/ \E s \in Shims, a \in Apps \cup {"None"}, mp \in ModulePaths :
          PyQueryTemplates(s, a, mp)
    \/ \E s \in Shims, a \in Apps, mp \in ModulePaths : InitAppCall(s, a, mp)

SpecShim ==
    InitSys({NoKey} \cup DoctypeValues, {CandidatePaths}) /\ [][NextShim]_vars

\* ------------------------------------------------------------------------
\* One application served by two request threads while either shim is
\* initialised on it; the configuration and the disk stay as they start.
\* ------------------------------------------------------------------------
NextCache ==
    \/ \E s \in Shims, a \in {"a1", "None"} : PyQueryTemplates(s, a, "renderer")
    \/ \E s \in Shims : InitAppCall(s, "a1", "renderer")
    \/ \E t \in Threads, a \in {"a1", "None"} : RtStart(t, a)
    \/ \E t \in Threads : LookupCreate(t)
    \/ \E t \in Threads : LookupStore(t)
    \/ \E t \in Threads : LookupReturn(t)
    \/ \E t \in Threads : RtFinish(t)

InitCache ==
    /\ InitSys({NoKey} \cup DoctypeValues, SUBSET CandidatePaths)
    /\ app["a2"].config = NoKey
    /\ AppPaths("a2")[1] \in isdir

SpecCache == InitCache /\ [][NextCache]_vars

\* ------------------------------------------------------------------------
\* The same, with the doctype option set while the application runs.
\* ------------------------------------------------------------------------
NextConfig ==
    \/ NextCache
    \/ \E v \in DoctypeValues : SetConfig("a1", v)

InitConfig ==
    /\ InitSys({NoKey} \cup DoctypeValues, {CandidatePaths})
    /\ app["a2"].config = NoKey

SpecConfig == InitConfig /\ [][NextConfig]_vars

\* ------------------------------------------------------------------------
\* Calls made directly on a lookup, with every argument and every state of
\* the disk and of the renderer module, on an application that has been
\* initialised with s1 = PyQueryTemplates(a1).
\* ------------------------------------------------------------------------
InitInitialised ==
    LET fresh == [ext |-> "None", lookup |-> NoAttr, config |-> NoKey]
        r == init_app(Unbound, "s1", "a1", "renderer", fresh)
    IN  /\ shim = [s \in Shims |-> IF s = "s1" THEN r.shim ELSE NotConstructed]
        /\ app = [a \in Apps |-> IF a = "a1" THEN r.app ELSE fresh]
        /\ thr = [t \in Threads |-> Idle]
        /\ last = NoResult
        /\ isdir = CandidatePaths
        /\ ret = None

RendererModule(a) == shim[app[a].ext].renderer_module

\* TemplateLookup(app, directories, doctype=...), lines 89-92
TemplateLookup(a, directories, doctype) ==
    [app |-> a, directories |-> directories, kwargs |-> [doctype |-> doctype]]

Dirs == {<<"d1">>, <<"d2">>, <<"d3">>}

InitLookup ==
    /\ InitInitialised
    /\ \E ds \in BoundedSeq(Dirs, MaxDirs), name \in TemplateNames,
          attr \in Attrs, files \in [Dirs -> Kinds] :
          call = [op |-> "get_template",
                  lookup |-> TemplateLookup("a1", ds, doctype_names("html5")),
                  name |-> name, attr |-> attr, files |-> files]

\* call.lookup.get_template(call.name)
CallGetTemplate ==
    /\ call.op = "get_template"
    /\ ret = None
    /\ ret' = get_template(call.lookup, RendererModule(call.lookup.app),
                          call.name, call.attr, call.files)
    /\ UNCHANGED <<sysvars, call>>

SpecLookup == InitLookup /\ [][CallGetTemplate]_vars

InitRender ==
    /\ InitInitialised
    /\ \E v \in DoctypeValues, attr \in Attrs, files \in [{<<"d1">>} -> Kinds],
          globals \in Dicts("g"), processors \in Dicts("p"),
          caller \in Dicts("c"), b \in Behaviours :
          call = [op |-> "render_template",
                  lookup |-> TemplateLookup("a1", << <<"d1">> >>,
                                            doctype_names(v)),
                  name |-> "index", attr |-> attr, files |-> files,
                  globals |-> globals, processors |-> processors,
                  caller |-> caller, b |-> b]

\* render_template(call.name, **call.caller) when _lookup returns call.lookup
CallRenderTemplate ==
    /\ call.op = "render_template"
    /\ ret = None
    /\ ret' = render_template(call.lookup, RendererModule(call.lookup.app),
                             call.lookup.app, call.name, call.attr, call.files,
                             call.globals, call.processors, call.caller,
                             call.b.io, call.b.rr)
    /\ UNCHANGED <<sysvars, call>>

SpecRender == InitRender /\ [][CallRenderTemplate]_vars

\* ========================================================================
\* The claims.  What the specification expects is written out here on its
\* own, not taken from the operators above.
\* ========================================================================
HasFile(d) == call.files[d] = "file"
Returned == ret # None

\* The context the specification promises: globals, overridden by the
\* context processors, overridden by the caller's keywords.
PromisedContext ==
    [k \in Keys |->
        IF call.caller[k] # Absent THEN call.caller[k]
        ELSE IF call.processors[k] # Absent THEN call.processors[k]
        ELSE call.globals[k]]

\* C1: the context the renderer is called with, and the context the
\* notification carries, is the caller's keywords over the context
\* processors' values over the template globals: a key the caller passes
\* keeps the caller's value.
C1_CallerContextWins ==
    (Returned /\ ret.rv.seen # None) =>
        /\ ret.rv.seen = PromisedContext
        /\ \A i \in DOMAIN ret.sent : ret.sent[i].context = PromisedContext

\* C2 as stated: once app._pyquery_lookup holds a lookup it is never
\* written again, whatever render_template and init_app calls follow.
C2_WrittenOnce ==
    [][\A a \in Apps :
          IsLookup(app[a].lookup) => app'[a].lookup = app[a].lookup]_vars

\* The lookups a state holds for application a: the cached one, and those
\* the request threads have built or been handed.
LookupsOf(a) ==
    (IF IsLookup(app[a].lookup) THEN {app[a].lookup} ELSE {})
    \cup {thr[t].built : t \in {u \in Threads : At(u, "store") /\ thr[u].app = a}}
    \cup {thr[t].lookup :
            t \in {u \in Threads : At(u, "get_template") /\ thr[u].app = a}}

DeclaredOrder(a) ==
    IF a = "a1"
    THEN << <<"pkg1", "templates">>, <<"pkg1", "extra">>,
            <<"pkg1", "admin", "tpl">>, <<"pkg1", "blog", "tpl">> >>
    ELSE << <<"pkg2", "templates">> >>

PromisedOrder(a) == SelectSeq(DeclaredOrder(a), LAMBDA p : p \in isdir)

PromisedDoctype(v) == IF v = "html5" THEN "<!DOCTYPE html>" ELSE v

C2_SlotStep ==
    \A a \in Apps :
        app'[a].lookup # app[a].lookup =>
            \/ /\ app'[a].lookup = None
               /\ last'.op \in {"__init__", "init_app"}
               /\ last'.outcome = "ok"
               /\ shim'[last'.who].app = a
            \/ \E t \in Threads :
                  /\ At(t, "store") /\ thr[t].app = a
                  /\ thr'[t].pc = "return"
                  /\ app'[a].lookup = thr[t].built

C2_AllAlike ==
    \A a \in Apps : \A lk \in LookupsOf(a) :
        /\ lk.directories = PromisedOrder(a)
        /\ lk.kwargs.doctype = PromisedDoctype(app[a].config)

\* C2, amended: app._pyquery_lookup is reset to "not built" by every
\* successful init_app on the application and is otherwise written only by
\* the assignment in _lookup, lazily, by a call that found it not built (so
\* more than once when first requests interleave or the application is
\* initialised again); with the disk and the configuration unchanged every
\* lookup built, stored or returned has the same directories and doctype.
C2_ResetAndRebuilt == [][C2_SlotStep]_vars /\ []C2_AllAlike

\* Witness for C2: a second initialisation has reset the slot while a
\* request thread still holds the lookup it built or was handed.
C2_Witness ==
    /\ last.op \in {"__init__", "init_app"} /\ last.outcome = "ok"
    /\ app["a1"].lookup = None
    /\ LookupsOf("a1") # {}

\* C3: init_app on a shim that already has an application raises
\* RuntimeError and changes nothing of the shim, so a shim's application,
\* module path and renderer module never change once it has an application.
C3_BoundOnce ==
    [][\A s \in Shims :
          (shim[s] # NotConstructed /\ shim[s].app # "None") =>
              /\ shim'[s] = shim[s]
              /\ (last'.op = "init_app" /\ last'.who = s)
                     => last'.outcome = "RuntimeError"]_vars

\* Witness for C3: init_app was refused on a shim bound with its renderer
\* module.
C3_Witness ==
    /\ last.op = "init_app" /\ last.outcome = "RuntimeError"
    /\ shim[last.who].renderer_module # None

\* C4: the Template get_template returns lies in the first directory of the
\* lookup's list that holds a regular file <name>.html.
C4_FirstMatchWins ==
    (Returned /\ ~Raised(ret)) =>
        \E i \in DOMAIN call.lookup.directories :
            /\ ret.path = Append(call.lookup.directories[i], <<call.name, "html">>)
            /\ HasFile(call.lookup.directories[i])
            /\ \A j \in 1..(i - 1) : ~HasFile(call.lookup.directories[j])

\* Witness for C4: a Template was returned although a later, different
\* directory holds the file too.
C4_Witness ==
    /\ Returned /\ ~Raised(ret)
    /\ \E i, j \in DOMAIN call.lookup.directories :
          /\ i < j
          /\ call.lookup.directories[i] # call.lookup.directories[j]
          /\ HasFile(call.lookup.directories[i])
          /\ HasFile(call.lookup.directories[j])
          /\ \E k \in 1..(i - 1) : call.files[call.lookup.directories[k]] = "dir"

FileSomewhere == \E i \in DOMAIN call.lookup.directories :
                    HasFile(call.lookup.directories[i])

\* C5: get_template returns a Template only when a directory holds the file
\* and the module holds the renderer; with the renderer and no file it
\* raises FileNotFoundError, with the file and no renderer attribute
\* AttributeError, and a call that raises returns no Template.
C5_BothOrError ==
    Returned =>
        /\ ~Raised(ret) => (FileSomewhere /\ call.attr = "func")
        /\ (call.attr = "func" /\ ~FileSomewhere)
              => ret = [raised |-> "FileNotFoundError"]
        /\ (call.attr = "absent" /\ FileSomewhere)
              => ret = [raised |-> "AttributeError"]
        /\ Raised(ret) => DOMAIN ret = {"raised"}

\* Witness for C5: the file is there, the renderer attribute is not, and the
\* call raised AttributeError.
C5_Witness ==
    /\ Returned /\ FileSomewhere /\ call.attr = "absent"
    /\ ret = [raised |-> "AttributeError"]

C7_SingleHtmlRoot ==
    (Returned /\ ret.template # None /\ call.b.io = "ok"
         /\ call.b.rr.kind = "doc") =>
        IF call.b.rr.roots = <<"html">>
        THEN /\ ~Raised(ret.rv)
             /\ ret.rv.root = "html"
             /\ ret.rv.doctype = call.lookup.kwargs.doctype
        ELSE /\ Raised(ret.rv)
             /\ ret.rv.raised = "TemplateError"

\* Witness for C7: the renderer returned two roots, the first an html
\* element, and render raised TemplateError.
C7_Witness ==
    /\ Returned /\ ret.template # None /\ call.b.io = "ok"
    /\ call.b.rr.kind = "doc"
    /\ Len(call.b.rr.roots) = 2 /\ call.b.rr.roots[1] = "html"
    /\ Raised(ret.rv) /\ ret.rv.raised = "TemplateError"

\* C8 as stated: a render_template call during which the option is not set
\* serialises with the translation of the PYQUERY_DOCTYPE configured at
\* that time, so a value set earlier shows in every later render.
C8_CurrentConfig ==
    [][\A t \in Threads :
          (At(t, "get_template") /\ thr'[t] = Idle /\ last'.outcome = "ok"
              /\ ~thr[t].dirty)
          => last'.doctype = PromisedDoctype(app[thr[t].app].config)]_vars

\* C8, amended: the doctype of a render's output is the doctype of the
\* lookup that _lookup returned to the call, which is the cached one; a
\* lookup gets its doctype when it is built, as the alias-table translation
\* of PYQUERY_DOCTYPE as configured then, or that value verbatim when the
\* table does not have it.  A value set after the lookup was built reaches
\* the output only after init_app has reset the cache.
C8_DoctypeOfLookup ==
    [][\A t \in Threads :
          /\ (At(t, "create") /\ thr'[t].pc = "store")
                => thr'[t].built.kwargs.doctype =
                      PromisedDoctype(app[thr[t].app].config)
          /\ (At(t, "store") /\ thr'[t].pc = "return")
                => app'[thr[t].app].lookup = thr[t].built
          /\ (At(t, "return") /\ thr'[t].pc = "get_template")
                => thr'[t].lookup = app[thr[t].app].lookup
          /\ (At(t, "get_template") /\ thr'[t] = Idle /\ last'.outcome = "ok")
                => last'.doctype = thr[t].lookup.kwargs.doctype]_vars

\* Witness for C8: a render put out the unrecognised value verbatim while
\* the option has since been set to the alias.
C8_Witness ==
    /\ last.op = "render_template" /\ last.outcome = "ok"
    /\ last.doctype = "custom-doctype"
    /\ app["a1"].config = "html5"

\* The exception the specification promises for a call, "ok" for none.
PromisedOutcome ==
    IF call.attr # "func" THEN "AttributeError"
    ELSE IF ~FileSomewhere THEN "FileNotFoundError"
    ELSE IF call.b.io # "ok" THEN "OSError"
    ELSE IF call.b.rr.kind = "raise" THEN "RendererError"
    ELSE IF call.b.rr.roots # <<"html">> THEN "TemplateError"
    ELSE "ok"

\* C9: a render_template call that succeeds sends template_rendered exactly
\* once, with the Template it resolved and the context it rendered with; a
\* call that fails sends nothing and raises the exception of the step that
\* failed.
C9_SignalOnSuccess ==
    Returned =>
        IF PromisedOutcome = "ok"
        THEN /\ ~Raised(ret.rv)
             /\ Len(ret.sent) = 1
             /\ ret.sent[1].sender = call.lookup.app
             /\ ret.sent[1].template = ret.template
             /\ ret.sent[1].template.path = <<"d1", <<call.name, "html">> >>
             /\ ret.sent[1].context = ret.rv.seen
        ELSE /\ Raised(ret.rv)
             /\ ret.rv.raised = PromisedOutcome
             /\ ret.sent = << >>

\* Witness for C9: the renderer ran with a context and the call failed on
\* the structure of the document.
C9_Witness ==
    /\ Returned /\ Raised(ret.rv) /\ ret.rv.raised = "TemplateError"
    /\ ret.rv.seen # None /\ ret.sent = << >>

\* C10: an init_app whose import raises leaves the shim and the application
\* as they were.
C10_AllOrNothing ==
    [][\A s \in Shims :
          (last'.op = "init_app" /\ last'.who = s
              /\ last'.outcome = "ImportError")
          => (shim'[s] = shim[s] /\ app' = app)]_vars

====
